---- MODULE Spec2Model ----
(***************************************************************************)
(* A model of the numerical core of the Obsidian quantum simulator:        *)
(*   - QuantumProcessor   (src/src/lib/quantum/core.ts, lines 16-216)      *)
(*   - QuantumAlgorithms  (src/src/lib/quantum/core.ts, lines 219-467)     *)
(*   - QuantumOptimizer   (src/src/lib/quantum/optimization.ts)            *)
(*   - QuantumAI          (src/src/lib/ai/gemini.ts, lines 89-294)         *)
(*                                                                         *)
(* JavaScript numbers are modelled as decimal fixed-point integers with    *)
(* eight fractional digits (the value v stands for v / SCALE), rounded to  *)
(* nearest after every operation as IEEE-754 arithmetic rounds after every *)
(* operation.  The non-finite values NaN, +Infinity, -Infinity and the     *)
(* value undefined are sentinels outside the finite range.  TLC integers   *)
(* are 32 bits wide, so products are formed from half-words (MulNat).      *)
(***************************************************************************)
EXTENDS Integers, Sequences, FiniteSets, TLC

\* ------------------------------------------------------------------------
\* Number representation
\* ------------------------------------------------------------------------
Base == 10^4
SCALE == Base * Base

PosInf == 2 * 10^9
NegInf == -PosInf
NaN == NegInf - 1
Undefined == NegInf - 2

\* ToNumber: undefined converts to NaN in arithmetic.
Num(x) == IF x = Undefined THEN NaN ELSE x
Finite(x) == x > NegInf /\ x < PosInf
Sign(x) == IF x < 0 THEN -1 ELSE IF x > 0 THEN 1 ELSE 0
AbsInt(x) == IF x < 0 THEN -x ELSE x

\* a * b / SCALE for naturals a, b, rounded to nearest, formed from
\* half-words so that no intermediate value exceeds 32 bits.
MulNat(a, b) ==
  LET ah == a \div Base
      al == a % Base
      bh == b \div Base
      bl == b % Base
      m == ah * bl + al * bh
      rest == (m % Base) * Base + al * bl
  IN ah * bh + (m \div Base) + ((rest + SCALE \div 2) \div SCALE)

Mul(a, b) == Sign(a) * Sign(b) * MulNat(AbsInt(a), AbsInt(b))

\* a / n for an integer n > 0, rounded to nearest.
DivRound(a, n) == Sign(a) * ((2 * AbsInt(a) + n) \div (2 * n))

\* JavaScript * on numbers.
Times(a, b) ==
  LET x == Num(a)
      y == Num(b)
  IN IF x = NaN \/ y = NaN THEN NaN
     ELSE IF Finite(x) /\ Finite(y) THEN Mul(x, y)
     ELSE IF x = 0 \/ y = 0 THEN NaN
     ELSE IF Sign(x) * Sign(y) > 0 THEN PosInf ELSE NegInf

\* JavaScript unary -.
Neg(a) ==
  LET x == Num(a)
  IN IF x = NaN THEN NaN
     ELSE IF x = PosInf THEN NegInf
     ELSE IF x = NegInf THEN PosInf
     ELSE -x

\* JavaScript + on numbers.
Plus(a, b) ==
  LET x == Num(a)
      y == Num(b)
  IN IF x = NaN \/ y = NaN THEN NaN
     ELSE IF Finite(x) /\ Finite(y) THEN x + y
     ELSE IF Finite(y) THEN x
     ELSE IF Finite(x) THEN y
     ELSE IF x = y THEN x ELSE NaN

\* JavaScript binary -.
Minus(a, b) == Plus(a, Neg(b))

\* JavaScript < and <= : false as soon as one side is NaN.
Less(a, b) == Num(a) # NaN /\ Num(b) # NaN /\ Num(a) < Num(b)
LessEq(a, b) == Num(a) # NaN /\ Num(b) # NaN /\ Num(a) <= Num(b)

\* x / k for a non-negative integer count k (JavaScript /: 0/0 is NaN).
DivideByCount(a, k) ==
  LET x == Num(a)
  IN IF x = NaN THEN NaN
     ELSE IF k = 0 THEN (IF x = 0 THEN NaN ELSE IF x > 0 THEN PosInf ELSE NegInf)
     ELSE IF Finite(x) THEN DivRound(x, k)
     ELSE x

MathAbs(a) ==
  LET x == Num(a)
  IN IF x = NaN THEN NaN
     ELSE IF x = NegInf THEN PosInf
     ELSE IF x = PosInf THEN PosInf
     ELSE AbsInt(x)

MathMin(a, b) ==
  LET x == Num(a)
      y == Num(b)
  IN IF x = NaN \/ y = NaN THEN NaN ELSE IF x < y THEN x ELSE y

MathMax(a, b) ==
  LET x == Num(a)
      y == Num(b)
  IN IF x = NaN \/ y = NaN THEN NaN ELSE IF x > y THEN x ELSE y

RECURSIVE SqrtSearch(_, _, _)
SqrtSearch(x, lo, hi) ==
  IF hi - lo <= 1 THEN lo
  ELSE LET mid == (lo + hi) \div 2
       IN IF MulNat(mid, mid) <= x
          THEN SqrtSearch(x, mid, hi)
          ELSE SqrtSearch(x, lo, mid)

\* Math.sqrt: NaN for a negative argument.
MathSqrt(a) ==
  LET x == Num(a)
  IN IF x = NaN \/ x < 0 THEN NaN
     ELSE IF x = PosInf THEN PosInf
     ELSE IF x = 0 THEN 0
     ELSE SqrtSearch(x, 0, (IF x > SCALE THEN x ELSE SCALE) + 1)

\* Math.pow(x, 2)
MathPow2(a) == Times(a, a)

\* Math.PI
Pi == 314159265

\* The Taylor series of sine (from term x, n = 1) and cosine (from term 1,
\* n = 0): each term is the previous one times -x^2 / ((n+1)(n+2)).
RECURSIVE TrigSeries(_, _, _, _)
TrigSeries(term, x2, n, acc) ==
  IF term = 0 THEN acc
  ELSE LET next == -DivRound(Mul(term, x2), (n + 1) * (n + 2))
       IN TrigSeries(next, x2, n + 2, acc + next)

\* The angle brought into [-Pi, Pi].
RECURSIVE ReduceAngle(_)
ReduceAngle(x) ==
  IF x > Pi THEN ReduceAngle(x - 2 * Pi)
  ELSE IF x < -Pi THEN ReduceAngle(x + 2 * Pi)
  ELSE x

\* Math.sin
MathSin(a) ==
  LET x == Num(a)
  IN IF ~Finite(x) THEN NaN
     ELSE LET r == ReduceAngle(x)
              h == Pi \div 2
              f == IF r > h THEN Pi - r ELSE IF r < -h THEN -Pi - r ELSE r
          IN TrigSeries(f, Mul(f, f), 1, f)

\* Math.cos
MathCos(a) ==
  LET x == Num(a)
  IN IF ~Finite(x) THEN NaN
     ELSE LET r == ReduceAngle(x)
              h == Pi \div 2
              f == IF r > h THEN Pi - r ELSE IF r < -h THEN -Pi - r ELSE r
              c == TrigSeries(SCALE, Mul(f, f), 0, SCALE)
          IN IF r > h \/ r < -h THEN -c ELSE c

\* The Taylor series of the exponential from term 1, n = 0: each term is
\* the previous one times x / (n + 1).
RECURSIVE ExpSeries(_, _, _, _)
ExpSeries(term, x, n, acc) ==
  IF term = 0 THEN acc
  ELSE LET next == DivRound(Mul(term, x), n + 1)
       IN ExpSeries(next, x, n + 1, acc + next)

\* Math.exp(-1) to the power n
RECURSIVE ExpNegInt(_)
ExpNegInt(n) == IF n = 0 THEN SCALE ELSE Mul(ExpNegInt(n - 1), 36787944)

\* Math.exp: exp(-n - f) is exp(-1)^n * exp(-f) for the whole part n and
\* the fraction f of a negative argument.
MathExp(a) ==
  LET x == Num(a)
  IN IF x = NaN THEN NaN
     ELSE IF x = PosInf THEN PosInf
     ELSE IF x = NegInf THEN 0
     ELSE IF x > 0 THEN ExpSeries(SCALE, x, 0, SCALE)
     ELSE LET n == (-x) \div SCALE
              f == (-x) % SCALE
          IN Mul(ExpNegInt(n), ExpSeries(SCALE, -f, 0, SCALE))

\* i / k for integers i >= 0 and k >= 0 (an epoch over a layer count):
\* 0 / 0 is NaN and i / 0 is Infinity.
IntRatio(i, k) ==
  IF k = 0 THEN (IF i = 0 THEN NaN ELSE PosInf)
  ELSE DivRound(i * SCALE, k)

\* the digits of r / b after the point, one decimal digit at a time
RECURSIVE DivDigits(_, _, _)
DivDigits(r, b, n) ==
  IF n = 0 THEN (IF 2 * r >= b THEN 1 ELSE 0)
  ELSE ((10 * r) \div b) * 10^(n - 1) + DivDigits((10 * r) % b, b, n - 1)

\* x / b for naturals x and b > 0, rounded to nearest; a divisor too wide
\* for the digit steps is halved together with the dividend, and a
\* quotient beyond the finite range is Infinity
RECURSIVE DivNat(_, _)
DivNat(x, b) ==
  IF b > 2 * SCALE THEN DivNat((x + 1) \div 2, (b + 1) \div 2)
  ELSE IF x \div b >= 20 THEN PosInf
  ELSE (x \div b) * SCALE + DivDigits(x % b, b, 8)

\* JavaScript / on numbers
Divide(a, b) ==
  LET x == Num(a)
      y == Num(b)
  IN IF x = NaN \/ y = NaN THEN NaN
     ELSE IF ~Finite(x) THEN
       (IF ~Finite(y) THEN NaN
        ELSE IF (x > 0) = (y >= 0) THEN PosInf ELSE NegInf)
     ELSE IF ~Finite(y) THEN 0
     ELSE IF y = 0 THEN
       (IF x = 0 THEN NaN ELSE IF x > 0 THEN PosInf ELSE NegInf)
     ELSE LET q == DivNat(AbsInt(x), AbsInt(y))
          IN IF Sign(x) * Sign(y) < 0 THEN Neg(q) ELSE q

\* The series of the arctangent from the power t (n = 1): each power is the
\* previous one times -t^2, and the term is the power over its exponent.
RECURSIVE AtanSeries(_, _, _, _)
AtanSeries(pow, t2, n, acc) ==
  IF pow = 0 THEN acc
  ELSE LET next == -Mul(pow, t2)
       IN AtanSeries(next, t2, n + 2, acc + DivRound(next, n + 2))

\* atan(t) = 2 * atan(t / (1 + sqrt(1 + t^2))), for t in [0, 1]
HalveTangent(t) == Divide(t, SCALE + MathSqrt(SCALE + Mul(t, t)))

\* the arctangent of t in [0, 1]: two halvings, then the series
AtanUnit(t) ==
  LET h == HalveTangent(HalveTangent(t))
  IN 4 * AtanSeries(h, Mul(h, h), 1, h)

\* Math.atan2 (zeros are unsigned here: atan2(0, x) is 0 for x >= 0 and
\* Pi for x < 0); an infinite argument counts as a unit one beside a zero
MathAtan2(b, a) ==
  LET y0 == Num(b)
      x0 == Num(a)
      unbounded == ~Finite(x0) \/ ~Finite(y0)
      y == IF unbounded THEN (IF Finite(y0) THEN 0 ELSE Sign(y0) * SCALE)
           ELSE y0
      x == IF unbounded THEN (IF Finite(x0) THEN 0 ELSE Sign(x0) * SCALE)
           ELSE x0
      ay == AbsInt(y)
      ax == AbsInt(x)
      r == IF ax = 0 /\ ay = 0 THEN 0
           ELSE IF ax >= ay THEN AtanUnit(Divide(ay, ax))
           ELSE Pi \div 2 - AtanUnit(Divide(ax, ay))
      q == IF x < 0 THEN Pi - r ELSE r
  IN IF x0 = NaN \/ y0 = NaN THEN NaN
     ELSE IF y < 0 THEN -q ELSE q

\* Math.ceil(Math.log2(v)) for a number v: NaN for a negative v or NaN
RECURSIVE CeilLog2Up(_, _)
CeilLog2Up(v, n) ==
  IF (v + 2^n - 1) \div 2^n <= SCALE THEN n ELSE CeilLog2Up(v, n + 1)
RECURSIVE FloorLog2Down(_, _)
FloorLog2Down(v, m) ==
  IF v * 2^(m + 1) <= SCALE THEN FloorLog2Down(v, m + 1) ELSE m
CeilLog2(a) ==
  LET v == Num(a)
  IN IF v = NaN \/ v < 0 THEN NaN
     ELSE IF v = PosInf THEN PosInf
     ELSE IF v = 0 THEN NegInf
     ELSE IF v >= SCALE THEN CeilLog2Up(v, 0)
     ELSE -FloorLog2Down(v, 0)

\* ------------------------------------------------------------------------
\* Bounds of the model
\* ------------------------------------------------------------------------
\* qubit counts of the processors built, and calls made on each
MaxQubits == 2
MaxOps == 3
\* measure() calls of a run that only measures
MaxDecaySteps == 400
\* arguments of modularExponentiation
MaxBase == 7
MaxExponent == 128
MaxModulus == 13
\* depth argument of optimizeQAOA
MaxDepth == 2
\* successive calls of applyTeleportationCorrections
MaxCorrections == 2
\* layers argument of new QuantumAI, epochs argument of train, and the
\* train and predict calls made on one QuantumAI
MaxLayers == 2
MaxEpochs == 6
MaxTrainerCalls == 2
\* timeSteps argument of imaginaryTimeEvolution
MaxTimeSteps == 3
\* calls made on a processor whose caller notes the gates
MaxLoggedOps == 2
\* quantumPhaseEstimation: precisions down to 2^-MaxPrecisionBits
MaxPrecisionBits == 3

\* The outcomes of Math.random() the model draws from ([0, 1), fixed point).
Draws == {0, SCALE \div 4, (3 * SCALE) \div 4}

\* An outcome of Math.random() for the phase of hadamardGate that takes the
\* coherence of a fresh processor to just below 1 (0.5497088530263496 does
\* so for doubles).
NearUnitPhaseDraw == 54970800
PhaseDraws == Draws \cup {NearUnitPhaseDraw}

\* ------------------------------------------------------------------------
\* QuantumProcessor: constants
\* ------------------------------------------------------------------------
\* decoherenceModel.environmentalNoise = 0.001
EnvironmentalNoise == 100000
\* Math.exp(-timeStep / T2) with timeStep = 1e-9, T2 = 70e-6
DephasingFactor == 99998571
\* Math.exp(-quantumEnergy / thermalEnergy)
\*   = exp(-(6.62607015e-34 * 1e9) / (1.380649e-23 * 0.015))
ThermalNoise == 4078278
\* temperature * boltzmannConstant / (planckConstant * 1e9)
FidelityThermalNoise == 31254929

\* QuantumGate.type
GateKinds == {"H", "X", "Y", "Z", "CNOT", "RX", "RY", "RZ", "T", "S"}
\* the keys of the gateOperations map
GateOperations == {"H", "X", "CNOT"}

VARIABLES
  qubits,         \* state.qubits: index -> scalar (a JavaScript array object)
  qubitsId,       \* the identity of the array object state.qubits refers to
  superposition,  \* state.superposition
  entanglement,   \* state.entanglement
  coherence,      \* state.coherence
  result,         \* what the last call returned (a ProcessingResult or NoResult)
  lastCall,       \* how the last call ended: new, applied, ignored, threw, measured
  ops             \* the number of calls made on the processor

stateVars == <<qubits, qubitsId, superposition, entanglement, coherence>>
procVars == <<qubits, qubitsId, superposition, entanglement, coherence,
              result, lastCall, ops>>

\* QuantumAlgorithms.modularExponentiation
VARIABLES
  meArgs,      \* the arguments of the call: [base, exponent, modulus]
  meBase,      \* the local base
  meExponent,  \* the local exponent
  meResult,    \* the local result, and the value returned
  mePc,        \* idle, call (entered), loop (at the while test), done
  meSteps      \* the loop iterations run

meVars == <<meArgs, meBase, meExponent, meResult, mePc, meSteps>>

\* QuantumOptimizer.optimizeQAOA / optimizeVQE
VARIABLES
  optKind,        \* none, QAOA or VQE: the method called
  optDepth,       \* the depth argument of optimizeQAOA
  parameters,     \* the local parameters
  currentEnergy,  \* the local currentEnergy (currentEigenvalue in optimizeVQE)
  iteration,      \* the local iteration
  optPc,          \* idle, loop (at the while test), done (returned)
  optResult       \* the object the promise resolves to

optVars == <<optKind, optDepth, parameters, currentEnergy, iteration,
             optPc, optResult>>

\* QuantumAlgorithms.applyTeleportationCorrections
VARIABLES
  tpQubit,      \* the qubit argument of the first call
  tpBits,       \* the measurements argument: <<measurements[0], measurements[1]>>
  tpCorrected,  \* the value the last call returned (the argument of the next)
  tpCount       \* the calls made

tpVars == <<tpQubit, tpBits, tpCorrected, tpCount>>

\* QuantumAI (src/src/lib/ai/gemini.ts)
VARIABLES
  aiModel,          \* this.model: [type, parameters, layers, accuracy, loss]
  aiQuantumLayers,  \* this.quantumLayers: sequence of QuantumLayer
  aiMemory,         \* this.quantumMemory: layer index idx (key layer_idx) -> register
  aiPc,             \* idle (none built), ready, training (inside train's loop)
  aiEpochs,         \* the epochs argument of the running train call
  aiEpoch,          \* the loop variable epoch of train
  aiDraw,           \* the Math.random() outcome the running train call draws
  aiInput,          \* the argument of the last predict call
  aiOutput,         \* what the last predict call returned
  aiLastCall,       \* new, train, epoch, trained, predict
  aiCalls           \* the train and predict calls made

aiVars == <<aiModel, aiQuantumLayers, aiMemory, aiPc, aiEpochs, aiEpoch,
            aiDraw, aiInput, aiOutput, aiLastCall, aiCalls>>

\* QuantumOptimizer.imaginaryTimeEvolution
VARIABLES
  iteHamiltonian,   \* the argument hamiltonian: rows of Complex
  iteInitialState,  \* the caller's array initialState
  iteEvolutionTime, \* the argument evolutionTime
  iteTimeSteps,     \* the argument timeSteps
  iteDt,            \* the local dt
  iteState,         \* the local state, and the array returned
  iteStep,          \* the loop variable step
  iteDegenerate,    \* whether a normalizeState call met a norm of 0
  itePc             \* idle, loop (at the for test), done (returned)

iteVars == <<iteHamiltonian, iteInitialState, iteEvolutionTime, iteTimeSteps,
             iteDt, iteState, iteStep, iteDegenerate, itePc>>

\* The caller of QuantumProcessor.applyGate
VARIABLES
  gateLog           \* the gates passed to applyGate so far, when noted

logVars == <<gateLog>>

\* QuantumAlgorithms.quantumPhaseEstimation
VARIABLES
  qpeUnitary,       \* the argument unitary (the name of a function)
  qpeEigenstate,    \* the caller's array eigenstate
  qpePrecision,     \* the argument precision
  qpeN,             \* the local n
  qpeK,             \* the loop variable k
  qpePower,         \* the local power
  qpeI,             \* the loop variable i
  qpeCurrentState,  \* the local currentState
  qpePhase,         \* the local phase, and the value returned
  qpeApplied,       \* the calls of unitary made so far
  qpePc             \* idle, outer (at the test of k), inner (at the test of i), done

qpeVars == <<qpeUnitary, qpeEigenstate, qpePrecision, qpeN, qpeK, qpePower,
             qpeI, qpeCurrentState, qpePhase, qpeApplied, qpePc>>

extraVars == <<logVars, qpeVars>>

\* the components added to the processor, modularExponentiation and optimizer
restVars == <<tpVars, aiVars, iteVars, extraVars>>
baseVars == <<procVars, meVars, optVars>>

vars == <<procVars, meVars, optVars, restVars>>

NoResult == [kind |-> "none"]

\* ------------------------------------------------------------------------
\* JavaScript arrays: a[i] of a missing index is undefined; a write to a
\* negative index adds a property and leaves length alone.
\* ------------------------------------------------------------------------
Get(a, i) == IF i \in DOMAIN a THEN a[i] ELSE Undefined
Put(a, i, v) == [j \in (DOMAIN a) \cup {i} |-> IF j = i THEN v ELSE a[j]]
Length(a) == Cardinality({i \in DOMAIN a : i >= 0})

State == [qubits |-> qubits, qubitsId |-> qubitsId,
          superposition |-> superposition,
          entanglement |-> entanglement, coherence |-> coherence]

SetState(st) ==
  /\ qubits' = st.qubits
  /\ qubitsId' = st.qubitsId
  /\ superposition' = st.superposition
  /\ entanglement' = st.entanglement
  /\ coherence' = st.coherence

\* ------------------------------------------------------------------------
\* QuantumProcessor: private methods, as functions of the state record
\* ------------------------------------------------------------------------
\* calculateWaveFunction: amplitude and probability (the phase is drawn by
\* the caller; the qubit index is not used).
WaveAmplitude(st) == MathSqrt(Minus(SCALE, MathPow2(st.coherence)))
WaveProbability(st) == MathPow2(WaveAmplitude(st))

\* applyDecoherenceEffects with the thermal factor (1 + thermalNoise)
DecoherenceWithThermalGain(st) ==
  LET c1 == Times(st.coherence, DephasingFactor)
  IN [st EXCEPT !.coherence = Times(c1, Plus(SCALE, ThermalNoise))]

ApplyDecoherenceEffects(st) ==
  LET c1 == Times(st.coherence, DephasingFactor)
  IN [st EXCEPT !.coherence = Times(c1, Minus(SCALE, ThermalNoise))]

\* this.state.qubits = this.state.qubits.map(...): a new array of the
\* indexed elements.
CalibrateQuantumRegisters(st) ==
  LET n == Length(st.qubits)
      p == WaveProbability(st)
  IN [st EXCEPT
        !.qubits = [i \in 0 .. n - 1 |->
                      Times(st.qubits[i],
                            Minus(SCALE, Times(EnvironmentalNoise, p)))],
        !.qubitsId = st.qubitsId + 1]

ApplySurfaceCode(q, startIdx) ==
  Put(Put(q, startIdx + 1, Get(q, startIdx)), startIdx + 2, Get(q, startIdx))

RECURSIVE SurfaceCodeLoop(_, _)
SurfaceCodeLoop(q, i) ==
  IF i < Length(q) - 2
  THEN SurfaceCodeLoop(ApplySurfaceCode(q, i), i + 3)
  ELSE q

InitializeErrorCorrection(st) ==
  IF Length(st.qubits) >= 3
  THEN [st EXCEPT !.qubits = SurfaceCodeLoop(st.qubits, 0)]
  ELSE st

\* initializeQuantumSystem without its applyDecoherenceEffects() call
InitializeWithoutDecoherence(st) ==
  InitializeErrorCorrection(CalibrateQuantumRegisters(st))

InitializeQuantumSystem(st) ==
  InitializeErrorCorrection(CalibrateQuantumRegisters(ApplyDecoherenceEffects(st)))

\* new QuantumProcessor(n)
Constructor(n) ==
  InitializeQuantumSystem(
    [qubits |-> [i \in 0 .. n - 1 |-> 0], qubitsId |-> 0,
     superposition |-> FALSE, entanglement |-> 0, coherence |-> SCALE])

\* validateGateOperation without its check of gate.control
ValidateTargetOnly(st, gate) == ~(gate.target >= Length(st.qubits))

\* validateGateOperation: TRUE when it returns, FALSE when it throws.
ValidateGateOperation(st, gate) ==
  /\ ~(gate.target >= Length(st.qubits))
  /\ ~(gate.control # Undefined /\ gate.control >= Length(st.qubits))

\* hadamardGate; u1, u2 are the two Math.random() draws.
HadamardGate(st, target, u1, u2) ==
  LET amplitude == WaveAmplitude(st)
      phase == Times(2 * Pi, u1)
      c1 == Times(st.coherence,
                  Minus(SCALE, Times(amplitude, MathSin(phase))))
      fluctuation == Times(u2, EnvironmentalNoise)
  IN [st EXCEPT !.superposition = TRUE,
                !.coherence = Times(c1, Minus(SCALE, fluctuation))]

PauliXGate(st, target) ==
  LET previousState == Get(st.qubits, target)
      probability == WaveProbability(st)
  IN [st EXCEPT !.qubits =
        Put(st.qubits, target,
            IF previousState = 0
            THEN Minus(SCALE, Times(probability, EnvironmentalNoise))
            ELSE Plus(0, Times(probability, EnvironmentalNoise)))]

UpdateEntanglementMetric(st, control, target) ==
  LET qc == Get(st.qubits, control)
      qt == Get(st.qubits, target)
      entanglementStrength ==
        MathAbs(Minus(Times(qc, qt),
                      Times(Minus(SCALE, qc), Minus(SCALE, qt))))
  IN [st EXCEPT !.entanglement =
        MathMin(SCALE, Plus(st.entanglement,
                            Times(entanglementStrength, SCALE \div 10)))]

\* cnotGate flipping the target for every control scalar but 0
CnotOnNonzeroControl(st, target, control) ==
  IF control = Undefined THEN st
  ELSE LET controlState == Get(st.qubits, control)
           flipped == IF controlState # 0 THEN PauliXGate(st, target) ELSE st
       IN UpdateEntanglementMetric(flipped, control, target)

CnotGate(st, target, control) ==
  IF control = Undefined THEN st
  ELSE LET controlState == Get(st.qubits, control)
           flipped == IF controlState = SCALE THEN PauliXGate(st, target) ELSE st
       IN UpdateEntanglementMetric(flipped, control, target)

PairTerm(q, i, j) ==
  MathAbs(Minus(Times(q[i], q[j]),
                MathSqrt(Times(Minus(SCALE, MathPow2(q[i])),
                               Minus(SCALE, MathPow2(q[j]))))))

\* the double loop of updateSystemEntanglement, in its order
RECURSIVE PairSum(_, _, _, _, _)
PairSum(q, n, i, j, acc) ==
  IF i >= n - 1 THEN acc
  ELSE IF j >= n THEN PairSum(q, n, i + 1, i + 2, acc)
  ELSE PairSum(q, n, i, j + 1, Plus(acc, PairTerm(q, i, j)))

\* updateSystemEntanglement adding the mean to the entanglement it finds
SystemEntanglementAccumulating(st) ==
  LET totalQubits == Length(st.qubits)
      globalEntanglement == PairSum(st.qubits, totalQubits, 0, 1, 0)
  IN [st EXCEPT !.entanglement =
        MathMin(SCALE,
                Plus(st.entanglement,
                     DivideByCount(globalEntanglement,
                                   (totalQubits * (totalQubits - 1)) \div 2)))]

UpdateSystemEntanglement(st) ==
  LET totalQubits == Length(st.qubits)
      globalEntanglement == PairSum(st.qubits, totalQubits, 0, 1, 0)
  IN [st EXCEPT !.entanglement =
        MathMin(SCALE,
                DivideByCount(globalEntanglement,
                              (totalQubits * (totalQubits - 1)) \div 2))]

\* operation(gate.target, {control, angle}) for a kind of the map; u1, u2
\* are the Math.random() draws that reach the state (those of hadamardGate:
\* pauliXGate draws a phase and drops it).
Operation(st, gate, u1, u2) ==
  IF gate.type = "H" THEN HadamardGate(st, gate.target, u1, u2)
  ELSE IF gate.type = "X" THEN PauliXGate(st, gate.target)
  ELSE CnotGate(st, gate.target, gate.control)

\* The draws an operation reads.
OperationDraws(gate) == IF gate.type = "H" THEN Draws ELSE {0}

CalculateMeasurementFidelity(st) ==
  LET environmentalDecoherence == SCALE - EnvironmentalNoise
  IN Times(Times(st.coherence, environmentalDecoherence),
           Minus(SCALE, FidelityThermalNoise))

\* (gateOperationTime + readoutTime + processingOverhead) * 1e9, kept in
\* units of 1 / Base
CalculateExecutionTime(u) == (20 + 100) * Base + 50 * (u \div Base)

\* ------------------------------------------------------------------------
\* QuantumProcessor: the public operations
\* ------------------------------------------------------------------------
Gates(n) ==
  [type : GateKinds, target : -1 .. n, control : {Undefined} \cup (-1 .. n)]

\* applyGate; phases and fluctuations are the outcomes of the two
\* Math.random() calls of the operation
ApplyGateDrawing(gate, phases, fluctuations) ==
  /\ ops' = ops + 1
  /\ result' = NoResult
  /\ IF ~ValidateGateOperation(State, gate)
     THEN /\ lastCall' = "threw"
          /\ UNCHANGED stateVars
     ELSE IF gate.type \in GateOperations
     THEN \E u1 \in phases, u2 \in fluctuations :
            /\ SetState(UpdateSystemEntanglement(
                          ApplyDecoherenceEffects(
                            Operation(State, gate, u1, u2))))
            /\ lastCall' = "applied"
     ELSE /\ lastCall' = "ignored"
          /\ UNCHANGED stateVars

\* applyGate with the decoherence step and the entanglement recompute
\* placed after the if, so that they follow a gate without operation too
ApplyGateDecoheringAlways(gate) ==
  /\ ops' = ops + 1
  /\ result' = NoResult
  /\ IF ~ValidateGateOperation(State, gate)
     THEN /\ lastCall' = "threw"
          /\ UNCHANGED stateVars
     ELSE IF gate.type \in GateOperations
     THEN \E u1 \in OperationDraws(gate), u2 \in OperationDraws(gate) :
            /\ SetState(UpdateSystemEntanglement(
                          ApplyDecoherenceEffects(
                            Operation(State, gate, u1, u2))))
            /\ lastCall' = "applied"
     ELSE /\ lastCall' = "ignored"
          /\ SetState(UpdateSystemEntanglement(ApplyDecoherenceEffects(State)))

ApplyGate(gate) ==
  ApplyGateDrawing(gate, OperationDraws(gate), OperationDraws(gate))

\* measure() that stores the measured values in the live state
MeasureCollapsing ==
  /\ ops' = ops + 1
  /\ LET st == ApplyDecoherenceEffects(State)
         n == Length(st.qubits)
         probability == WaveProbability(st)
     IN \E draw \in [0 .. n - 1 -> Draws], u \in Draws :
          LET measurementResults ==
                [i \in 0 .. n - 1 |->
                   IF Less(draw[i], probability) THEN SCALE ELSE st.qubits[i]]
              collapsed == [st EXCEPT !.qubits = measurementResults]
          IN /\ SetState(collapsed)
             /\ result' =
                  [kind |-> "ProcessingResult",
                   state |-> collapsed,
                   probability |-> CalculateMeasurementFidelity(st),
                   confidence |-> st.coherence,
                   executionTime |-> CalculateExecutionTime(u)]
  /\ lastCall' = "measured"

\* measure(); draw[i] is the Math.random() of qubit i, u the one of
\* calculateExecutionTime.  calculateSystemEnergy only computes a local
\* that is dropped.
Measure ==
  /\ ops' = ops + 1
  /\ LET st == ApplyDecoherenceEffects(State)
         n == Length(st.qubits)
         probability == WaveProbability(st)
     IN \E draw \in [0 .. n - 1 -> Draws], u \in Draws :
          LET measurementResults ==
                [i \in 0 .. n - 1 |->
                   IF Less(draw[i], probability) THEN SCALE ELSE st.qubits[i]]
          IN /\ SetState(st)
             /\ result' =
                  [kind |-> "ProcessingResult",
                   state |-> [st EXCEPT !.qubits = measurementResults,
                                        !.qubitsId = st.qubitsId + ops + 1],
                   probability |-> CalculateMeasurementFidelity(st),
                   confidence |-> st.coherence,
                   executionTime |-> CalculateExecutionTime(u)]
  /\ lastCall' = "measured"

\* The state a constructor call leaves.
Constructed(n) ==
  /\ LET st == Constructor(n)
     IN /\ qubits = st.qubits
        /\ qubitsId = st.qubitsId
        /\ superposition = st.superposition
        /\ entanglement = st.entanglement
        /\ coherence = st.coherence
  /\ result = NoResult
  /\ lastCall = "new"
  /\ ops = 0

\* ------------------------------------------------------------------------
\* QuantumAlgorithms.modularExponentiation
\* ------------------------------------------------------------------------
\* exponent & 1 and exponent >> 1, for an exponent in 0 .. 2^31 - 1
LowBit(e) == e % 2
ShiftRight(e) == e \div 2

\* one iteration of the while loop without the squaring of base
ModExpIterationNoSquare(r, b, e, m) ==
  [result |-> IF LowBit(e) # 0 THEN (r * b) % m ELSE r,
   base |-> b,
   exponent |-> ShiftRight(e)]

\* one iteration of the while loop
ModExpIteration(r, b, e, m) ==
  [result |-> IF LowBit(e) # 0 THEN (r * b) % m ELSE r,
   base |-> (b * b) % m,
   exponent |-> ShiftRight(e)]

ModExpIdle ==
  /\ meArgs = [base |-> 0, exponent |-> 0, modulus |-> 1]
  /\ meBase = 0
  /\ meExponent = 0
  /\ meResult = 0
  /\ mePc = "idle"
  /\ meSteps = 0

ModExpInit ==
  /\ meArgs \in [base : 0 .. MaxBase, exponent : 0 .. MaxExponent,
                 modulus : 1 .. MaxModulus]
  /\ meBase = meArgs.base
  /\ meExponent = meArgs.exponent
  /\ meResult = 0
  /\ mePc = "call"
  /\ meSteps = 0

\* if (modulus === 1) return 0; let result = 1; base = base % modulus
ModExpEnter ==
  /\ mePc = "call"
  /\ IF meArgs.modulus = 1
     THEN /\ meResult' = 0
          /\ mePc' = "done"
          /\ UNCHANGED <<meBase>>
     ELSE /\ meResult' = 1
          /\ meBase' = meBase % meArgs.modulus
          /\ mePc' = "loop"
  /\ UNCHANGED <<meArgs, meExponent, meSteps>>
  /\ UNCHANGED <<procVars, optVars, restVars>>

\* while (exponent > 0) { ... }
ModExpLoop ==
  /\ mePc = "loop"
  /\ meExponent > 0
  /\ LET it == ModExpIteration(meResult, meBase, meExponent, meArgs.modulus)
     IN /\ meResult' = it.result
        /\ meBase' = it.base
        /\ meExponent' = it.exponent
  /\ meSteps' = meSteps + 1
  /\ UNCHANGED <<meArgs, mePc>>
  /\ UNCHANGED <<procVars, optVars, restVars>>

\* return result
ModExpReturn ==
  /\ mePc = "loop"
  /\ ~(meExponent > 0)
  /\ mePc' = "done"
  /\ UNCHANGED <<meArgs, meBase, meExponent, meResult, meSteps>>
  /\ UNCHANGED <<procVars, optVars, restVars>>

\* ------------------------------------------------------------------------
\* QuantumOptimizer: optimizeQAOA and optimizeVQE
\* ------------------------------------------------------------------------
MAX_ITERATIONS == 1000
\* 1e-6
CONVERGENCE_THRESHOLD == 100
\* 0.01
LEARNING_RATE == 1000000
\* the length of the parameter vector of optimizeVQE
VqeParameterCount == 10

\* The Math.random() outcomes the parameter vectors are drawn from: they
\* give the angles 0, 1.0 and 3.13.
OptDraws == {SCALE \div 2, 65915494, 99815497}

\* The draws of one call: the odd positions share a draw, and so do the
\* even ones.
DrawVectors(count) ==
  {[i \in 1 .. count |-> IF i % 2 = 1 THEN a ELSE b] :
     a \in OptDraws, b \in OptDraws}

\* initializeRandomParameters with one draw too many
InitializeOneTooMany(draws) ==
  [i \in 1 .. Len(draws) + 1 |-> 0]

\* initializeRandomParameters(count), draws being its count draws
InitializeRandomParameters(draws) ==
  [i \in 1 .. Len(draws) |->
     Times(Times(Minus(draws[i], SCALE \div 2), 2 * SCALE), Pi)]

\* (idx % 2 ? 1 : -1) for the 0-based idx of position i
QaoaSign(i) == IF (i - 1) % 2 # 0 THEN SCALE ELSE -SCALE

RECURSIVE SumTo(_, _)
\* reduce((acc, x) => acc + x, 0) over the sequence f
SumTo(f, n) == IF n = 0 THEN 0 ELSE Plus(SumTo(f, n - 1), f[n])

EvaluateQAOAObjective(params) ==
  [energy |->
     SumTo([i \in 1 .. Len(params) |->
              Times(MathCos(params[i]), QaoaSign(i))], Len(params)),
   gradient |->
     [i \in 1 .. Len(params) |->
        Times(Neg(MathSin(params[i])), QaoaSign(i))]]

EvaluateVQEObjective(params) ==
  [energy |->
     SumTo([i \in 1 .. Len(params) |-> MathPow2(MathCos(params[i]))],
           Len(params)),
   gradient |->
     [i \in 1 .. Len(params) |->
        Times(Times(-2 * SCALE, MathCos(params[i])), MathSin(params[i]))]]

EvaluateObjective(kind, params) ==
  IF kind = "QAOA" THEN EvaluateQAOAObjective(params)
  ELSE EvaluateVQEObjective(params)

UpdateParameters(params, gradient) ==
  [i \in 1 .. Len(params) |->
     Minus(params[i], Times(LEARNING_RATE, gradient[i]))]

\* Math.abs(energy - currentEnergy) < CONVERGENCE_THRESHOLD
Converged(energy, current) ==
  Less(MathAbs(Minus(energy, current)), CONVERGENCE_THRESHOLD)

\* { parameters, energy: currentEnergy } / { parameters, eigenvalue: ... }
OptimizerReturn(kind, params, current) ==
  IF kind = "QAOA"
  THEN [parameters |-> params, energy |-> current]
  ELSE [parameters |-> params, eigenvalue |-> current]

NoOptResult == [pending |-> TRUE]

OptimizerIdle ==
  /\ optKind = "none"
  /\ optDepth = 0
  /\ parameters = <<>>
  /\ currentEnergy = 0
  /\ iteration = 0
  /\ optPc = "idle"
  /\ optResult = NoOptResult

\* the state at the first while test of either method
OptimizerInit ==
  /\ \/ /\ optKind = "QAOA"
        /\ optDepth \in 0 .. MaxDepth
        /\ \E draws \in DrawVectors(2 * optDepth) :
             parameters = InitializeRandomParameters(draws)
     \/ /\ optKind = "VQE"
        /\ optDepth = 0
        /\ \E draws \in DrawVectors(VqeParameterCount) :
             parameters = InitializeRandomParameters(draws)
  /\ currentEnergy = PosInf
  /\ iteration = 0
  /\ optPc = "loop"
  /\ optResult = NoOptResult

\* one pass of the loop body that reaches iteration++
OptimizerStep ==
  /\ optPc = "loop"
  /\ iteration < MAX_ITERATIONS
  /\ LET obj == EvaluateObjective(optKind, parameters)
     IN /\ ~Converged(obj.energy, currentEnergy)
        /\ parameters' = UpdateParameters(parameters, obj.gradient)
        /\ currentEnergy' = obj.energy
  /\ iteration' = iteration + 1
  /\ UNCHANGED <<optKind, optDepth, optPc, optResult>>
  /\ UNCHANGED <<procVars, meVars, restVars>>

\* the pass of the loop body that breaks, and the return that follows
OptimizerBreak ==
  /\ optPc = "loop"
  /\ iteration < MAX_ITERATIONS
  /\ Converged(EvaluateObjective(optKind, parameters).energy, currentEnergy)
  /\ optResult' = OptimizerReturn(optKind, parameters, currentEnergy)
  /\ optPc' = "done"
  /\ UNCHANGED <<optKind, optDepth, parameters, currentEnergy, iteration>>
  /\ UNCHANGED <<procVars, meVars, restVars>>

\* the while test that fails, and the return that follows
OptimizerExhaust ==
  /\ optPc = "loop"
  /\ ~(iteration < MAX_ITERATIONS)
  /\ optResult' = OptimizerReturn(optKind, parameters, currentEnergy)
  /\ optPc' = "done"
  /\ UNCHANGED <<optKind, optDepth, parameters, currentEnergy, iteration>>
  /\ UNCHANGED <<procVars, meVars, restVars>>

\* A processor no call is made on.
\* ------------------------------------------------------------------------
\* QuantumAlgorithms: the correction step of quantumTeleportation
\* ------------------------------------------------------------------------
\* The components of the qubits the corrections are tried on.
Amplitudes == {-SCALE, -1, 0, 1, SCALE \div 2, SCALE}

\* pauliX: real and imag trade places
PauliX(qubit) == [real |-> qubit.imag, imag |-> qubit.real]

\* pauliZ: imag changes sign
PauliZ(qubit) == [real |-> qubit.real, imag |-> Neg(qubit.imag)]

\* applyTeleportationCorrections(qubit, measurements): pauliX if
\* measurements[1], then pauliZ if measurements[0]
ApplyTeleportationCorrections(qubit, measurements) ==
  LET afterX == IF measurements[2] # 0 THEN PauliX(qubit) ELSE qubit
  IN IF measurements[1] # 0 THEN PauliZ(afterX) ELSE afterX

TeleportIdle ==
  /\ tpQubit = [real |-> 0, imag |-> 0]
  /\ tpBits = <<0, 0>>
  /\ tpCorrected = tpQubit
  /\ tpCount = 0

TeleportInit ==
  /\ tpQubit \in [real : Amplitudes, imag : Amplitudes]
  /\ tpBits \in {0, 1} \X {0, 1}
  /\ tpCorrected = tpQubit
  /\ tpCount = 0

\* one call, on what the call before it returned
TeleportCorrect ==
  /\ tpCount < MaxCorrections
  /\ tpCorrected' = ApplyTeleportationCorrections(tpCorrected, tpBits)
  /\ tpCount' = tpCount + 1
  /\ UNCHANGED <<tpQubit, tpBits>>
  /\ UNCHANGED <<baseVars, aiVars, iteVars, extraVars>>

\* ------------------------------------------------------------------------
\* QuantumAI: construction
\* ------------------------------------------------------------------------
\* this.maxQubits
AiMaxQubits == 50
\* optimizer.quantumNoiseThreshold = 0.01
QuantumNoiseThreshold == 1000000
\* Math.sqrt(2)
Sqrt2 == 141421356
BaseGates == <<"H", "CNOT", "RX", "RY", "RZ">>

\* Math.floor(Math.log2(m)) for an integer m >= 1
RECURSIVE FloorLog2(_)
FloorLog2(m) == IF m < 2 THEN 0 ELSE 1 + FloorLog2(m \div 2)

\* calculateParameters(layers): layers * 1000 plus
\* Math.floor(layers * maxQubits * (1 - Math.exp(-layers / coherenceTime))),
\* where Math.exp(-layers / 100e-6) is 0 for layers >= 1 and 1 for layers = 0
CalculateParameters(layers) ==
  layers * 1000 + layers * AiMaxQubits * (IF layers = 0 THEN 0 ELSE 1)

\* The Math.random() outcomes of one gate sequence, as <<start, stride>>:
\* draw k selects baseGates[(start + stride * k) % 5]: all RX, and
\* H, CNOT, RX, RY, RZ in turn.
GatePatterns == {<<2, 0>>, <<0, 1>>}

\* generateQuantumGateSequence(layer): Math.floor(5 * Math.log2(layer + 2))
\* gates, each baseGates[Math.floor(Math.random() * 5)]
GenerateQuantumGateSequence(layer, pattern) ==
  [k \in 1 .. FloorLog2((layer + 2)^5) |->
     BaseGates[((pattern[1] + pattern[2] * (k - 1)) % 5) + 1]]

\* initializeQuantumLayers(layers): layer i (from 0) is element i + 1
InitializeQuantumLayers(layers, pattern) ==
  [n \in 1 .. layers |->
     LET i == n - 1
         lg == FloorLog2((i + 2)^10)
     IN [qubits |-> IF AiMaxQubits < lg THEN AiMaxQubits ELSE lg,
         entanglementPattern |->
           IF i % 3 = 0 THEN "full"
           ELSE IF i % 2 = 0 THEN "circular" ELSE "linear",
         gateSequence |-> GenerateQuantumGateSequence(i, pattern)]]

\* The Math.random() outcomes of the register angles.
ThetaDraws == {0, SCALE \div 4}

\* initializeQuantumRegisters with one slot too many in every register
RegistersOddLength(layers, u) ==
  [idx \in 0 .. Len(layers) - 1 |->
     [i \in 1 .. layers[idx + 1].qubits * 2 + 1 |-> 0]]

\* initializeQuantumRegisters: the register of layer idx has
\* layer.qubits * 2 slots, slot pairs (Math.cos(theta), Math.sin(theta))
\* with theta = Math.random() * Math.PI; slot i (from 0) is element i + 1
InitializeQuantumRegisters(layers, u) ==
  [idx \in 0 .. Len(layers) - 1 |->
     [i \in 1 .. layers[idx + 1].qubits * 2 |->
        IF i % 2 = 1 THEN MathCos(Times(u, Pi)) ELSE MathSin(Times(u, Pi))]]

\* constructor(layers)
QuantumAIConstructor(layers, pattern, u) ==
  LET ql == InitializeQuantumLayers(layers, pattern)
  IN [model |-> [type |-> "hybrid",
                 parameters |-> CalculateParameters(layers),
                 layers |-> layers,
                 accuracy |-> 0,
                 loss |-> SCALE],
      quantumLayers |-> ql,
      quantumMemory |-> InitializeQuantumRegisters(ql, u)]

\* ------------------------------------------------------------------------
\* QuantumAI: train
\* ------------------------------------------------------------------------
\* The Math.random() outcomes of the gate errors of one train call.
ErrorDraws == {0, (3 * SCALE) \div 4}

\* applyQuantumGate(gate, real, imag, error): <<real, imag>>
ApplyQuantumGate(gate, real, imag, error) ==
  IF gate = "H"
  THEN <<Times(Divide(Plus(real, imag), Sqrt2), Minus(SCALE, error)),
         Times(Divide(Minus(real, imag), Sqrt2), Minus(SCALE, error))>>
  ELSE IF gate = "RX"
  THEN <<Minus(Times(real, MathCos(error)), Times(imag, MathSin(error))),
         Plus(Times(imag, MathCos(error)), Times(real, MathSin(error)))>>
  ELSE <<Times(real, Minus(SCALE, error)), Times(imag, Minus(SCALE, error))>>

\* the inner for loop of simulateQuantumOperations: one gate on every pair
ApplyToRegister(gate, register, error) ==
  LET pairs == [p \in 1 .. Len(register) \div 2 |->
                  ApplyQuantumGate(gate, register[2 * p - 1], register[2 * p],
                                   error)]
  IN [i \in 1 .. Len(register) |-> pairs[(i + 1) \div 2][2 - (i % 2)]]

\* simulateQuantumOperations from gate k on: [register, loss]
RECURSIVE SimulateFrom(_, _, _, _, _)
SimulateFrom(gates, k, register, loss, u) ==
  IF k > Len(gates) THEN [register |-> register, loss |-> loss]
  ELSE LET gateError == Times(u, QuantumNoiseThreshold)
       IN SimulateFrom(gates, k + 1,
                       ApplyToRegister(gates[k], register, gateError),
                       Plus(loss, gateError), u)

SimulateQuantumOperations(layer, register, u) ==
  SimulateFrom(layer.gateSequence, 1, register, 0, u)

\* applyQuantumNoiseReduction(register, epoch)
ApplyQuantumNoiseReduction(register, epoch, layers) ==
  LET noiseReduction == MathExp(Neg(IntRatio(epoch, layers)))
  IN [i \in 1 .. Len(register) |->
        Times(register[i],
              Minus(SCALE, Times(QuantumNoiseThreshold, noiseReduction)))]

\* the forEach of trainEpoch from layer n on: [memory, epochLoss]
RECURSIVE TrainLayersFrom(_, _, _, _, _, _, _)
TrainLayersFrom(quantumLayers, n, memory, epochLoss, epoch, layers, u) ==
  IF n > Len(quantumLayers) THEN [memory |-> memory, epochLoss |-> epochLoss]
  ELSE LET sim == SimulateQuantumOperations(quantumLayers[n], memory[n - 1], u)
           reduced == ApplyQuantumNoiseReduction(sim.register, epoch, layers)
       IN TrainLayersFrom(quantumLayers, n + 1,
                          [memory EXCEPT ![n - 1] = reduced],
                          Plus(epochLoss, sim.loss), epoch, layers, u)

\* trainEpoch(epoch): [memory, epochLoss], epochLoss being the sum of the
\* layer losses / quantumLayers.length
TrainEpoch(quantumLayers, memory, epoch, layers, u) ==
  LET done == TrainLayersFrom(quantumLayers, 1, memory, 0, epoch, layers, u)
  IN [memory |-> done.memory,
      epochLoss |-> DivideByCount(done.epochLoss, Len(quantumLayers))]

\* updateModelMetrics(epochLoss, epoch)
UpdateModelMetrics(model, epochLoss, epoch) ==
  LET accuracyImprovement ==
        Times(Times(Times(Minus(SCALE, model.accuracy), SCALE \div 10),
                    MathExp(Neg(epochLoss))),
              Minus(SCALE, IntRatio(epoch, model.layers * 2)))
  IN [model EXCEPT
        !.accuracy = MathMin(SCALE, Plus(model.accuracy, accuracyImprovement)),
        !.loss = Plus(Times(epochLoss,
                            MathExp(Neg(IntRatio(epoch, model.layers)))),
                      QuantumNoiseThreshold)]

\* ------------------------------------------------------------------------
\* QuantumAI: predict
\* ------------------------------------------------------------------------
\* Math.exp(-Date.now() / (coherenceTime * 1e6)) at the epoch of the clock
\* and at any later time of this century
CoherenceFactors == {MathExp(0), MathExp(NegInf)}
\* The Math.random() outcomes of one predict call.
NoiseDraws == {0, (3 * SCALE) \div 4}
\* The arguments predict is called with.
PredictInputs ==
  {<<>>, <<0>>, <<SCALE \div 2, SCALE>>, <<-3 * SCALE, SCALE + 1, 5 * SCALE>>}

\* calculateQuantumNoise()
CalculateQuantumNoise(u, coherenceFactor) ==
  Times(Times(Minus(u, SCALE \div 2), QuantumNoiseThreshold), coherenceFactor)

\* predict(input)
PredictValues(model, input, u1, u2, coherenceFactor) ==
  [i \in 1 .. Len(input) |->
     LET quantumNoise == CalculateQuantumNoise(u1, coherenceFactor)
         classicalNoise ==
           Times(Minus(u2, SCALE \div 2), Minus(SCALE, model.accuracy))
     IN MathMax(0, MathMin(SCALE,
                  Plus(Plus(input[i], quantumNoise), classicalNoise)))]

\* getModelStats(): a copy of this.model
GetModelStats == aiModel

\* ------------------------------------------------------------------------
\* QuantumAI: the calls
\* ------------------------------------------------------------------------
AiIdle ==
  /\ aiModel = [type |-> "hybrid", parameters |-> 0, layers |-> 0,
                accuracy |-> 0, loss |-> SCALE]
  /\ aiQuantumLayers = <<>>
  /\ aiMemory = <<>>
  /\ aiPc = "idle"
  /\ aiEpochs = 0
  /\ aiEpoch = 0
  /\ aiDraw = 0
  /\ aiInput = <<>>
  /\ aiOutput = <<>>
  /\ aiLastCall = "none"
  /\ aiCalls = 0

\* new QuantumAI(layers)
AiInit ==
  /\ \E layers \in 0 .. MaxLayers, pattern \in GatePatterns, u \in ThetaDraws :
       LET built == QuantumAIConstructor(layers, pattern, u)
       IN /\ aiModel = built.model
          /\ aiQuantumLayers = built.quantumLayers
          /\ aiMemory = built.quantumMemory
  /\ aiPc = "ready"
  /\ aiEpochs = 0
  /\ aiEpoch = 0
  /\ aiDraw = 0
  /\ aiInput = <<>>
  /\ aiOutput = <<>>
  /\ aiLastCall = "new"
  /\ aiCalls = 0

\* The epochs arguments train is called with.
EpochChoices == {0, 1, MaxEpochs \div 2, MaxEpochs}

\* train(epochs): let epoch = 0
TrainCall ==
  /\ aiPc = "ready"
  /\ aiCalls < MaxTrainerCalls
  /\ \E epochs \in EpochChoices, u \in ErrorDraws :
       /\ aiEpochs' = epochs
       /\ aiDraw' = u
  /\ aiEpoch' = 0
  /\ aiPc' = "training"
  /\ aiLastCall' = "train"
  /\ aiCalls' = aiCalls + 1
  /\ aiInput' = <<>>
  /\ aiOutput' = <<>>
  /\ UNCHANGED <<aiModel, aiQuantumLayers, aiMemory>>
  /\ UNCHANGED <<baseVars, tpVars, iteVars, extraVars>>

\* one pass of train's loop: trainEpoch, updateModelMetrics, epoch++
TrainEpochStep ==
  /\ aiPc = "training"
  /\ aiEpoch < aiEpochs
  /\ LET trained == TrainEpoch(aiQuantumLayers, aiMemory, aiEpoch,
                               aiModel.layers, aiDraw)
     IN /\ aiMemory' = trained.memory
        /\ aiModel' = UpdateModelMetrics(aiModel, trained.epochLoss, aiEpoch)
  /\ aiEpoch' = aiEpoch + 1
  /\ aiLastCall' = "epoch"
  /\ UNCHANGED <<aiQuantumLayers, aiPc, aiEpochs, aiDraw, aiInput, aiOutput,
                 aiCalls>>
  /\ UNCHANGED <<baseVars, tpVars, iteVars, extraVars>>

\* train returns
TrainReturn ==
  /\ aiPc = "training"
  /\ ~(aiEpoch < aiEpochs)
  /\ aiPc' = "ready"
  /\ aiLastCall' = "trained"
  /\ UNCHANGED <<aiModel, aiQuantumLayers, aiMemory, aiEpochs, aiEpoch,
                 aiDraw, aiInput, aiOutput, aiCalls>>
  /\ UNCHANGED <<baseVars, tpVars, iteVars, extraVars>>

\* predict(input)
PredictCall ==
  /\ aiPc = "ready"
  /\ aiCalls < MaxTrainerCalls
  /\ \E input \in PredictInputs, u1 \in NoiseDraws, u2 \in NoiseDraws,
        coherenceFactor \in CoherenceFactors :
       /\ aiInput' = input
       /\ aiOutput' = PredictValues(aiModel, input, u1, u2, coherenceFactor)
  /\ aiLastCall' = "predict"
  /\ aiCalls' = aiCalls + 1
  /\ UNCHANGED <<aiModel, aiQuantumLayers, aiMemory, aiPc, aiEpochs,
                 aiEpoch, aiDraw>>
  /\ UNCHANGED <<baseVars, tpVars, iteVars, extraVars>>

\* ------------------------------------------------------------------------
\* QuantumOptimizer: imaginaryTimeEvolution
\* ------------------------------------------------------------------------
Cx(re, im) == [real |-> re, imag |-> im]

\* The hamiltonian arguments: zero, identity, exchange, -sigma_y, diagonal.
Hamiltonians ==
  {<< <<Cx(0, 0), Cx(0, 0)>>, <<Cx(0, 0), Cx(0, 0)>> >>,
   << <<Cx(SCALE, 0), Cx(0, 0)>>, <<Cx(0, 0), Cx(SCALE, 0)>> >>,
   << <<Cx(0, 0), Cx(SCALE, 0)>>, <<Cx(SCALE, 0), Cx(0, 0)>> >>,
   << <<Cx(0, 0), Cx(0, SCALE)>>, <<Cx(0, -SCALE), Cx(0, 0)>> >>,
   << <<Cx(-SCALE, 0), Cx(0, 0)>>, <<Cx(0, 0), Cx(SCALE \div 2, 0)>> >>}

\* The initialState arguments: a basis state, a unit state with a complex
\* amplitude, a state that is not normalized, and the zero vector.
InitialStates ==
  {<<Cx(SCALE, 0), Cx(0, 0)>>,
   <<Cx(60000000, 0), Cx(0, 80000000)>>,
   <<Cx(SCALE, 0), Cx(SCALE, 0)>>,
   <<Cx(0, 0), Cx(0, 0)>>}

\* The evolutionTime arguments.
EvolutionTimes == {SCALE \div 2, SCALE}

\* the reduce of evolveState for row i, from column j on
RECURSIVE EvolveRow(_, _, _, _, _)
EvolveRow(row, state, dt, j, acc) ==
  IF j > Len(state) THEN acc
  ELSE LET h == row[j]
           s == state[j]
       IN EvolveRow(row, state, dt, j + 1,
            [real |-> Plus(acc.real,
                           Times(Minus(Times(h.real, s.real),
                                       Times(h.imag, s.imag)), dt)),
             imag |-> Plus(acc.imag,
                           Times(Plus(Times(h.real, s.imag),
                                      Times(h.imag, s.real)), dt))])

\* evolveState(state, hamiltonian, dt)
EvolveState(state, hamiltonian, dt) ==
  [i \in 1 .. Len(state) |-> EvolveRow(hamiltonian[i], state, dt, 1, Cx(0, 0))]

\* the reduce of normalizeState: the sum of real^2 + imag^2
RECURSIVE NormSquared(_, _)
NormSquared(state, n) ==
  IF n = 0 THEN 0
  ELSE Plus(Plus(NormSquared(state, n - 1),
                 Times(state[n].real, state[n].real)),
            Times(state[n].imag, state[n].imag))

\* normalizeState(state)
NormalizeState(state) ==
  LET norm == MathSqrt(NormSquared(state, Len(state)))
  IN [i \in 1 .. Len(state) |->
        [real |-> Divide(state[i].real, norm),
         imag |-> Divide(state[i].imag, norm)]]

IteIdle ==
  /\ iteHamiltonian = <<>>
  /\ iteInitialState = <<>>
  /\ iteEvolutionTime = 0
  /\ iteTimeSteps = 0
  /\ iteDt = 0
  /\ iteState = <<>>
  /\ iteStep = 0
  /\ iteDegenerate = FALSE
  /\ itePc = "idle"

\* imaginaryTimeEvolution(hamiltonian, initialState, evolutionTime,
\* timeSteps): dt = evolutionTime / timeSteps; state = [...initialState]
IteInit ==
  /\ iteHamiltonian \in Hamiltonians
  /\ iteInitialState \in InitialStates
  /\ iteEvolutionTime \in EvolutionTimes
  /\ iteTimeSteps \in 0 .. MaxTimeSteps
  /\ iteDt = DivideByCount(iteEvolutionTime, iteTimeSteps)
  /\ iteState = iteInitialState
  /\ iteStep = 0
  /\ iteDegenerate = FALSE
  /\ itePc = "loop"

\* one pass of the loop: evolveState, normalizeState, step++
IteStep ==
  /\ itePc = "loop"
  /\ iteStep < iteTimeSteps
  /\ LET evolved == EvolveState(iteState, iteHamiltonian, iteDt)
     IN /\ iteState' = NormalizeState(evolved)
        /\ iteDegenerate' =
             (iteDegenerate \/ NormSquared(evolved, Len(evolved)) = 0)
  /\ iteStep' = iteStep + 1
  /\ UNCHANGED <<iteHamiltonian, iteInitialState, iteEvolutionTime,
                 iteTimeSteps, iteDt, itePc>>
  /\ UNCHANGED <<baseVars, tpVars, aiVars, extraVars>>

\* return state
IteReturn ==
  /\ itePc = "loop"
  /\ ~(iteStep < iteTimeSteps)
  /\ itePc' = "done"
  /\ UNCHANGED <<iteHamiltonian, iteInitialState, iteEvolutionTime,
                 iteTimeSteps, iteDt, iteState, iteStep, iteDegenerate>>
  /\ UNCHANGED <<baseVars, tpVars, aiVars, extraVars>>

\* ------------------------------------------------------------------------
\* The caller's note of the gates it passed
\* ------------------------------------------------------------------------
LogIdle == gateLog = <<>>

\* ------------------------------------------------------------------------
\* QuantumAlgorithms.quantumPhaseEstimation
\* ------------------------------------------------------------------------
\* 1 / Math.sqrt(2), the component of the eighth turn
SqrtHalf == 70710678

\* The unitary arguments: functions that return a new array and leave
\* their argument alone.  Each multiplies every component by a unit
\* complex number w (1, i, (1 + i) / sqrt(2)), or exchanges the components.
Unitaries == {"identity", "quarter", "eighth", "exchange"}

UnitaryFactor(u) ==
  IF u = "quarter" THEN [real |-> 0, imag |-> SCALE]
  ELSE IF u = "eighth" THEN [real |-> SqrtHalf, imag |-> SqrtHalf]
  ELSE [real |-> SCALE, imag |-> 0]

\* multiplyComplex
MultiplyComplex(a, b) ==
  [real |-> Minus(Times(a.real, b.real), Times(a.imag, b.imag)),
   imag |-> Plus(Times(a.real, b.imag), Times(a.imag, b.real))]

\* scaleComplex
ScaleComplex(a, scalar) ==
  [real |-> Times(a.real, scalar), imag |-> Times(a.imag, scalar)]

\* unitary(state)
ApplyUnitary(u, state) ==
  IF u = "exchange"
  THEN [i \in 1 .. Len(state) |-> state[Len(state) + 1 - i]]
  ELSE [i \in 1 .. Len(state) |-> MultiplyComplex(state[i], UnitaryFactor(u))]

\* The eigenstate arguments: two basis-like vectors, a vector of norm 1
\* with both components set, and the zero vector.
Eigenstates ==
  {<<[real |-> SCALE, imag |-> 0], [real |-> 0, imag |-> 0]>>,
   <<[real |-> 0, imag |-> SCALE], [real |-> SCALE, imag |-> 0]>>,
   <<[real |-> (3 * SCALE) \div 5, imag |-> 0],
     [real |-> 0, imag |-> (4 * SCALE) \div 5]>>,
   <<[real |-> 0, imag |-> 0], [real |-> 0, imag |-> 0]>>}

\* The precision arguments: 2^-b, 0.3, 2 and -1.
Precisions ==
  {SCALE \div 2^b : b \in 0 .. MaxPrecisionBits}
    \cup {(3 * SCALE) \div 10, 2 * SCALE, -SCALE}

\* state.reduce((acc, val) => acc + re^2 + im^2, 0) over the first n
RECURSIVE SumOfSquares(_, _)
SumOfSquares(state, n) ==
  IF n = 0 THEN 0
  ELSE Plus(Plus(SumOfSquares(state, n - 1), MathPow2(state[n].real)),
            MathPow2(state[n].imag))

\* measurePhase
MeasurePhase(state) ==
  LET probability == SumOfSquares(state, Len(state))
      normalizedState ==
        [i \in 1 .. Len(state) |->
           ScaleComplex(state[i], Divide(SCALE, MathSqrt(probability)))]
  IN Divide(MathAtan2(normalizedState[1].imag, normalizedState[1].real),
            2 * Pi)

\* Math.pow(2, -(k + 1))
PowTwoNeg(k) == SCALE \div 2^(k + 1)

\* let currentState = eigenstate, with the state the previous iteration left
\* carried over instead
IterationStartCarrying(eigenstate, currentState, k) ==
  IF k = 0 THEN eigenstate ELSE currentState

\* let currentState = eigenstate
IterationStart(eigenstate, currentState, k) == eigenstate

QpeIdle ==
  /\ qpeUnitary = "none"
  /\ qpeEigenstate = <<>>
  /\ qpePrecision = 0
  /\ qpeN = 0
  /\ qpeK = 0
  /\ qpePower = 0
  /\ qpeI = 0
  /\ qpeCurrentState = <<>>
  /\ qpePhase = 0
  /\ qpeApplied = 0
  /\ qpePc = "idle"

\* the state at the first test of k: n computed, phase 0
QpeInit ==
  /\ qpeUnitary \in Unitaries
  /\ qpeEigenstate \in Eigenstates
  /\ qpePrecision \in Precisions
  /\ qpeN = CeilLog2(Divide(SCALE, qpePrecision))
  /\ qpeK = 0
  /\ qpePower = 0
  /\ qpeI = 0
  /\ qpeCurrentState = <<>>
  /\ qpePhase = 0
  /\ qpeApplied = 0
  /\ qpePc = "outer"

\* k < n holds: power and currentState are set
QpeIteration ==
  /\ qpePc = "outer"
  /\ Less(qpeK, qpeN)
  /\ qpePower' = 2^qpeK
  /\ qpeCurrentState' = IterationStart(qpeEigenstate, qpeCurrentState, qpeK)
  /\ qpeI' = 0
  /\ qpePc' = "inner"
  /\ UNCHANGED <<qpeUnitary, qpeEigenstate, qpePrecision, qpeN, qpeK,
                 qpePhase, qpeApplied>>
  /\ UNCHANGED <<baseVars, tpVars, aiVars, iteVars, logVars>>

\* i < power holds: currentState = unitary(currentState)
QpeApply ==
  /\ qpePc = "inner"
  /\ qpeI < qpePower
  /\ qpeCurrentState' = ApplyUnitary(qpeUnitary, qpeCurrentState)
  /\ qpeApplied' = qpeApplied + 1
  /\ qpeI' = qpeI + 1
  /\ UNCHANGED <<qpeUnitary, qpeEigenstate, qpePrecision, qpeN, qpeK,
                 qpePower, qpePhase, qpePc>>
  /\ UNCHANGED <<baseVars, tpVars, aiVars, iteVars, logVars>>

\* i < power fails: the measurement is added to phase, k++
QpeMeasure ==
  /\ qpePc = "inner"
  /\ ~(qpeI < qpePower)
  /\ LET measurement == MeasurePhase(qpeCurrentState)
     IN qpePhase' = Plus(qpePhase, Times(measurement, PowTwoNeg(qpeK)))
  /\ qpeK' = qpeK + 1
  /\ qpePc' = "outer"
  /\ UNCHANGED <<qpeUnitary, qpeEigenstate, qpePrecision, qpeN, qpePower,
                 qpeI, qpeCurrentState, qpeApplied>>
  /\ UNCHANGED <<baseVars, tpVars, aiVars, iteVars, logVars>>

\* k < n fails: return phase
QpeReturn ==
  /\ qpePc = "outer"
  /\ ~Less(qpeK, qpeN)
  /\ qpePc' = "done"
  /\ UNCHANGED <<qpeUnitary, qpeEigenstate, qpePrecision, qpeN, qpeK,
                 qpePower, qpeI, qpeCurrentState, qpePhase, qpeApplied>>
  /\ UNCHANGED <<baseVars, tpVars, aiVars, iteVars, logVars>>

ExtraIdle == LogIdle /\ QpeIdle

\* nothing but the processor, modularExponentiation and the optimizer is used
RestIdle == TeleportIdle /\ AiIdle /\ IteIdle /\ ExtraIdle

ProcIdle ==
  /\ qubits = <<>>
  /\ qubitsId = 0
  /\ superposition = FALSE
  /\ entanglement = 0
  /\ coherence = SCALE
  /\ result = NoResult
  /\ lastCall = "none"
  /\ ops = 0

\* ------------------------------------------------------------------------
\* Spec: a processor of any size, any calls in any order
\* ------------------------------------------------------------------------
ProcInit ==
  /\ \E n \in 1 .. MaxQubits : Constructed(n)
  /\ ModExpIdle
  /\ OptimizerIdle
  /\ RestIdle

ApplyGateCall ==
  /\ ops < MaxOps
  /\ \E gate \in Gates(Length(qubits)) : ApplyGate(gate)
  /\ UNCHANGED <<meVars, optVars, restVars>>

MeasureCall ==
  /\ ops < MaxOps
  /\ Measure
  /\ UNCHANGED <<meVars, optVars, restVars>>

Init == ProcInit
Next == ApplyGateCall \/ MeasureCall
Spec == Init /\ [][Next]_vars

\* ------------------------------------------------------------------------
\* SpecScenario: the end-to-end scenario on a processor of four qubits:
\* H on 0, CNOT(control 0, target 1), X on 2, measure
\* ------------------------------------------------------------------------
ScenarioQubits == 4
ScenarioInit ==
  /\ Constructed(ScenarioQubits)
  /\ ModExpIdle
  /\ OptimizerIdle
  /\ RestIdle

ScenarioH ==
  /\ ops = 0
  /\ ApplyGate([type |-> "H", target |-> 0, control |-> Undefined])
  /\ UNCHANGED <<meVars, optVars, restVars>>
ScenarioCNOT ==
  /\ ops = 1
  /\ ApplyGate([type |-> "CNOT", target |-> 1, control |-> 0])
  /\ UNCHANGED <<meVars, optVars, restVars>>
ScenarioX ==
  /\ ops = 2
  /\ ApplyGate([type |-> "X", target |-> 2, control |-> Undefined])
  /\ UNCHANGED <<meVars, optVars, restVars>>
ScenarioMeasure ==
  /\ ops = 3
  /\ Measure
  /\ UNCHANGED <<meVars, optVars, restVars>>

ScenarioNext == ScenarioH \/ ScenarioCNOT \/ ScenarioX \/ ScenarioMeasure
SpecScenario == ScenarioInit /\ [][ScenarioNext]_vars

\* ------------------------------------------------------------------------
\* SpecDecay: a fresh processor on which only measure() is called
\* ------------------------------------------------------------------------
DecayMeasure ==
  /\ ops < MaxDecaySteps
  /\ Measure
  /\ UNCHANGED <<meVars, optVars, restVars>>

SpecDecay == ProcInit /\ [][DecayMeasure]_vars

\* ------------------------------------------------------------------------
\* SpecLogged: a processor of any size, any calls in any order, the caller
\* noting the gate of each applyGate call in order
\* ------------------------------------------------------------------------
LoggedGateCall ==
  /\ ops < MaxLoggedOps
  /\ \E gate \in Gates(Length(qubits)) :
       /\ ApplyGate(gate)
       /\ gateLog' = Append(gateLog, gate)
  /\ UNCHANGED <<meVars, optVars, tpVars, aiVars, iteVars, qpeVars>>

LoggedMeasureCall ==
  /\ ops < MaxLoggedOps
  /\ Measure
  /\ UNCHANGED gateLog
  /\ UNCHANGED <<meVars, optVars, tpVars, aiVars, iteVars, qpeVars>>

LoggedNext == LoggedGateCall \/ LoggedMeasureCall
SpecLogged == ProcInit /\ [][LoggedNext]_vars

\* ------------------------------------------------------------------------
\* SpecControlled: on a fresh processor, at most one H gate, then X on a
\* qubit c, then CNOT with control c
\* ------------------------------------------------------------------------
XGate(c) == [type |-> "X", target |-> c, control |-> Undefined]
CnotGateOn(c, t) == [type |-> "CNOT", target |-> t, control |-> c]

\* the kind of the gate passed last ("none" before the first call)
LastKind == IF gateLog = <<>> THEN "none" ELSE gateLog[Len(gateLog)].type
LastTarget == IF gateLog = <<>> THEN Undefined ELSE gateLog[Len(gateLog)].target

ControlledH ==
  /\ gateLog = <<>>
  /\ \E t \in 0 .. Length(qubits) - 1 :
       LET gate == [type |-> "H", target |-> t, control |-> Undefined]
       IN /\ ApplyGateDrawing(gate, PhaseDraws, Draws)
          /\ gateLog' = Append(gateLog, gate)
  /\ UNCHANGED <<meVars, optVars, tpVars, aiVars, iteVars, qpeVars>>

ControlledX ==
  /\ LastKind \in {"none", "H"}
  /\ \E c \in 0 .. Length(qubits) - 1 :
       /\ ApplyGate(XGate(c))
       /\ gateLog' = Append(gateLog, XGate(c))
  /\ UNCHANGED <<meVars, optVars, tpVars, aiVars, iteVars, qpeVars>>

ControlledCNOT ==
  /\ LastKind = "X"
  /\ \E t \in 0 .. Length(qubits) - 1 :
       LET gate == CnotGateOn(LastTarget, t)
       IN /\ ApplyGate(gate)
          /\ gateLog' = Append(gateLog, gate)
  /\ UNCHANGED <<meVars, optVars, tpVars, aiVars, iteVars, qpeVars>>

ControlledNext == ControlledH \/ ControlledX \/ ControlledCNOT
SpecControlled == ProcInit /\ [][ControlledNext]_vars

\* ------------------------------------------------------------------------
\* SpecModExp: one call of modularExponentiation
\* ------------------------------------------------------------------------
ModExpSpecInit == ModExpInit /\ ProcIdle /\ OptimizerIdle /\ RestIdle
ModExpNext == ModExpEnter \/ ModExpLoop \/ ModExpReturn
SpecModExp == ModExpSpecInit /\ [][ModExpNext]_vars

\* ------------------------------------------------------------------------
\* SpecOptimizer: one call of optimizeQAOA or of optimizeVQE
\* ------------------------------------------------------------------------
OptimizerSpecInit == OptimizerInit /\ ProcIdle /\ ModExpIdle /\ RestIdle
OptimizerNext == OptimizerStep \/ OptimizerBreak \/ OptimizerExhaust
SpecOptimizer == OptimizerSpecInit /\ [][OptimizerNext]_vars

\* ------------------------------------------------------------------------
\* SpecTeleport: applyTeleportationCorrections called again and again with
\* the same measurements, each call on the result of the one before
\* ------------------------------------------------------------------------
BaseIdle == ProcIdle /\ ModExpIdle /\ OptimizerIdle
TeleportSpecInit == TeleportInit /\ BaseIdle /\ AiIdle /\ IteIdle /\ ExtraIdle
TeleportNext == TeleportCorrect
SpecTeleport == TeleportSpecInit /\ [][TeleportNext]_vars

\* ------------------------------------------------------------------------
\* SpecTrainer: a QuantumAI of any layer count, train and predict calls in
\* any order
\* ------------------------------------------------------------------------
TrainerSpecInit == AiInit /\ BaseIdle /\ TeleportIdle /\ IteIdle /\ ExtraIdle
TrainerNext == TrainCall \/ TrainEpochStep \/ TrainReturn \/ PredictCall
SpecTrainer == TrainerSpecInit /\ [][TrainerNext]_vars

\* ------------------------------------------------------------------------
\* SpecEvolution: one call of imaginaryTimeEvolution
\* ------------------------------------------------------------------------
EvolutionSpecInit == IteInit /\ BaseIdle /\ TeleportIdle /\ AiIdle /\ ExtraIdle
EvolutionNext == IteStep \/ IteReturn
SpecEvolution == EvolutionSpecInit /\ [][EvolutionNext]_vars

\* ------------------------------------------------------------------------
\* SpecPhase: one call of quantumPhaseEstimation
\* ------------------------------------------------------------------------
PhaseSpecInit ==
  QpeInit /\ BaseIdle /\ TeleportIdle /\ AiIdle /\ IteIdle /\ LogIdle
PhaseNext == QpeIteration \/ QpeApply \/ QpeMeasure \/ QpeReturn
SpecPhase == PhaseSpecInit /\ [][PhaseNext]_vars

\* ------------------------------------------------------------------------
\* Properties
\* ------------------------------------------------------------------------
InUnit(x) == LessEq(0, x) /\ LessEq(x, SCALE)
OutOfRange(gate) ==
  \/ gate.target >= Length(qubits)
  \/ (gate.control # Undefined /\ gate.control >= Length(qubits))

C2_OutOfRangeThrowsAndKeepsState ==
  [][\A gate \in Gates(Length(qubits)) :
       (OutOfRange(gate) /\ ApplyGate(gate)) =>
         (lastCall' = "threw" /\ UNCHANGED stateVars)]_vars

C2_Witness ==
  /\ lastCall = "threw"
  /\ ops >= 2
  /\ superposition

\* C3 as stated: every result of measure() has its state.qubits entries,
\* its probability and its confidence within [0, 1].
C3_MeasureWithinUnit ==
  lastCall = "measured" =>
    /\ \A i \in DOMAIN result.state.qubits : InUnit(result.state.qubits[i])
    /\ InUnit(result.probability)
    /\ InUnit(result.confidence)

\* C4 as stated: in the four-qubit scenario (H on 0, CNOT 0 -> 1, X on 2,
\* measure) the coherence reported is strictly less than the coherence
\* before the first gate, and every dispatched gate leaves coherence no
\* greater than it was.
C4_CoherenceNeverGrows ==
  /\ [](ops = 4 =>
          Less(result.state.coherence, Constructor(ScenarioQubits).coherence))
  /\ [][lastCall' = "applied" => LessEq(coherence', coherence)]_vars

\* The least coherence one decoherence step still lowers: below it the
\* product with (1 - thermalNoise) rounds back to the value it started from.
DecayGranularity == SCALE \div (2 * ThermalNoise) + 1

\* C5 as stated: on a fresh processor that is only measured, each
\* decoherence step strictly lowers coherence while coherence is positive,
\* and coherence stays within [0, 1].
C5_DecayStrictWhilePositive ==
  [][(coherence > 0 => Less(coherence', coherence)) /\ InUnit(coherence')]_vars

\* C5 as amended: on a fresh processor that is only measured, no
\* decoherence step raises coherence, coherence stays within [0, 1] and
\* positive, and a step strictly lowers it as long as it is at least
\* DecayGranularity units of the number format; below that the step
\* leaves it where it is.
C5_DecayMonotoneWithFloor ==
  [][/\ LessEq(coherence', coherence)
     /\ InUnit(coherence')
     /\ coherence' > 0
     /\ (coherence >= DecayGranularity => Less(coherence', coherence))
     /\ (coherence < DecayGranularity => coherence' = coherence)]_vars

C5_Witness ==
  /\ lastCall = "measured"
  /\ coherence > 0
  /\ coherence < DecayGranularity

\* C6 as stated: after any dispatched gate the entanglement scalar is a
\* number within [0, 1], for every qubit count N >= 1.
C6_EntanglementWithinUnit ==
  lastCall = "applied" => InUnit(entanglement)

\* C7: measure() leaves the live qubit scalars, the superposition flag and
\* entanglement as they were, whatever the snapshot's qubits are; coherence
\* changes by exactly one decoherence step; the snapshot's qubit array is
\* another array than the live one.
C7_MeasureReadOnly ==
  [][lastCall' = "measured" =>
       /\ qubits' = qubits
       /\ qubitsId' = qubitsId
       /\ superposition' = superposition
       /\ entanglement' = entanglement
       /\ coherence' =
            Times(Times(coherence, DephasingFactor), SCALE - ThermalNoise)
       /\ result'.state.qubitsId # qubitsId']_vars

C7_Witness ==
  /\ lastCall = "measured"
  /\ \E i \in DOMAIN qubits : result.state.qubits[i] # qubits[i]

\* b^e mod m, from b^(i+j) = b^i * b^j
RECURSIVE PowMod(_, _, _)
PowMod(b, e, m) ==
  IF e = 0 THEN 1 % m
  ELSE IF e = 1 THEN b % m
  ELSE (PowMod(b, e \div 2, m) * PowMod(b, e - (e \div 2), m)) % m

\* the number of binary digits of e
RECURSIVE BitLength(_)
BitLength(e) == IF e = 0 THEN 0 ELSE 1 + BitLength(e \div 2)

\* C8: modularExponentiation(base, exponent, modulus) is base^exponent mod
\* modulus for naturals base, exponent and modulus >= 1 within the bounds:
\* (7, 128, 13) gives 3, exponent 0 gives 1 for a modulus above 1, modulus 1
\* gives 0; and the loop ends, after as many iterations as the exponent
\* has binary digits.
C8_ModularExponentiation ==
  /\ meSteps <= BitLength(meArgs.exponent)
  /\ mePc = "loop" => meSteps + BitLength(meExponent) = BitLength(meArgs.exponent)
  /\ mePc = "done" =>
       /\ meResult = PowMod(meArgs.base, meArgs.exponent, meArgs.modulus)
       /\ meArgs.modulus = 1 => meResult = 0
       /\ (meArgs.exponent = 0 /\ meArgs.modulus > 1) => meResult = 1
       /\ (meArgs.base = 7 /\ meArgs.exponent = 128 /\ meArgs.modulus = 13)
            => meResult = 3

C8_Witness ==
  /\ mePc = "done"
  /\ meArgs = [base |-> 7, exponent |-> 128, modulus |-> 13]
  /\ meResult = 3
  /\ meSteps = 8

\* the length of the parameter vector the call asks for
ExpectedLength == IF optKind = "QAOA" THEN 2 * optDepth ELSE VqeParameterCount
\* the energy (eigenvalue) of the object returned
ReturnedEnergy ==
  IF optKind = "QAOA" THEN optResult.energy ELSE optResult.eigenvalue

\* C9: optimizeQAOA(depth d) and optimizeVQE stop after at most 1000 loop
\* iterations whatever the initial parameters, and return a parameter
\* vector of length 2 * d (QAOA), 10 (VQE), with a finite energy
\* (eigenvalue).
C9_OptimizerStopsWithFiniteEnergy ==
  /\ iteration <= MAX_ITERATIONS
  /\ Len(parameters) = ExpectedLength
  /\ optPc = "done" =>
       /\ Len(optResult.parameters) = ExpectedLength
       /\ \A i \in 1 .. ExpectedLength : Finite(optResult.parameters[i])
       /\ Finite(ReturnedEnergy)

C9_Witness ==
  /\ optPc = "done"
  /\ optKind = "QAOA"
  /\ optDepth = 2
  /\ iteration > 1
  /\ iteration < MAX_ITERATIONS
  /\ Len(optResult.parameters) = 4

\* C10 as stated: a run that uses up the 1000 iterations returns normally
\* and its result tells so, by a convergence flag or an iteration count.
C10_ExhaustedRunIsReported ==
  (optPc = "done" /\ iteration = MAX_ITERATIONS) =>
    \/ "convergence" \in DOMAIN optResult
    \/ "iterations" \in DOMAIN optResult

\* C11 as stated: for every qubit q and every pair of measurement bits,
\* applyTeleportationCorrections applied twice with the same bits gives q
\* back.
C11_CorrectionsTwiceIsIdentity ==
  tpCount = 2 => tpCorrected = tpQubit

\* C12 as stated: during train on a trainer with one layer or more, no
\* epoch lowers the model accuracy.
C12_AccuracyNeverFalls ==
  [][(aiLastCall' = "epoch" /\ aiModel.layers >= 1) =>
       LessEq(aiModel.accuracy, aiModel'.accuracy)]_vars

\* C13 as stated: for one layer or more, the accuracy getModelStats()
\* reports is within [0, 1] after construction and after any train calls.
C13_AccuracyWithinUnit ==
  (aiPc = "ready" /\ aiModel.layers >= 1) => InUnit(GetModelStats.accuracy)

\* C14 as stated: after every epoch of train the model loss is a finite
\* number, not NaN, of at least the noise threshold 0.01, for every layer
\* count the constructor takes, 0 included.
C14_LossFiniteAboveThreshold ==
  aiLastCall = "epoch" =>
    /\ Finite(aiModel.loss)
    /\ LessEq(QuantumNoiseThreshold, aiModel.loss)

\* C15: once built, and after any train calls, quantumMemory holds one
\* register for each layer (keys layer_0 .. layer_{L-1}), each of them of
\* even length, twice the qubit count of its layer; and no call changes
\* the layer descriptors.
C15_OneEvenRegisterPerLayer ==
  /\ [](aiPc # "idle" =>
         /\ Len(aiQuantumLayers) = aiModel.layers
         /\ DOMAIN aiMemory = 0 .. aiModel.layers - 1
         /\ \A idx \in DOMAIN aiMemory :
              /\ Len(aiMemory[idx]) % 2 = 0
              /\ Len(aiMemory[idx]) = 2 * aiQuantumLayers[idx + 1].qubits)
  /\ [][aiPc # "idle" => aiQuantumLayers' = aiQuantumLayers]_vars

C15_Witness ==
  /\ aiLastCall = "trained"
  /\ aiCalls = 2
  /\ aiEpoch = MaxEpochs
  /\ aiModel.layers = 2
  /\ Len(aiMemory[0]) = 20
  /\ Len(aiMemory[1]) = 30
  /\ aiMemory[1] # InitializeQuantumRegisters(aiQuantumLayers, 0)[1]

\* C16 as stated: predict(inputs) returns as many elements as inputs
\* has, each within [0, 1], whatever the model state, and leaves the model
\* stats as they were.
C16_PredictWithinUnit ==
  /\ [](aiLastCall = "predict" =>
         /\ Len(aiOutput) = Len(aiInput)
         /\ \A i \in 1 .. Len(aiOutput) : InUnit(aiOutput[i]))
  /\ [][aiLastCall' = "predict" => aiModel' = aiModel]_vars

\* two numbers that are the same up to the rounding of a few operations
Tolerance == SCALE \div 10^5
Close(a, b) ==
  \/ Num(a) = Num(b)
  \/ /\ Finite(Num(a))
     /\ Finite(Num(b))
     /\ AbsInt(Num(a) - Num(b)) <= Tolerance

\* the Euler update the claim describes: state[i] + sum_j H[i][j] * state[j] * dt
EulerUpdate(state, hamiltonian, dt) ==
  [i \in 1 .. Len(state) |-> EvolveRow(hamiltonian[i], state, dt, 1, state[i])]

\* n of the claim's steps (Euler update, then renormalize) from initialState
RECURSIVE EulerSteps(_)
EulerSteps(n) ==
  IF n = 0 THEN iteInitialState
  ELSE NormalizeState(EulerUpdate(EulerSteps(n - 1), iteHamiltonian, iteDt))

\* C17 as stated: each step of imaginaryTimeEvolution is the Euler update
\* state[i] := state[i] + sum_j H[i][j] * state[j] * dt followed by the
\* renormalization, the vector returned is what timeSteps such steps give,
\* and the caller's initialState is left as it was.
C17_EulerUpdateKeepsAmplitude ==
  /\ [](itePc \in {"loop", "done"} =>
         \A i \in 1 .. Len(iteState) :
           /\ Close(iteState[i].real, EulerSteps(iteStep)[i].real)
           /\ Close(iteState[i].imag, EulerSteps(iteStep)[i].imag))
  /\ [](itePc = "done" => iteStep = iteTimeSteps)
  /\ [][itePc # "idle" => iteInitialState' = iteInitialState]_vars

\* C18 as stated: every component of the vector imaginaryTimeEvolution
\* returns is a finite number (no NaN, no Infinity), also when a step
\* gives a vector of norm 0; and the vector has norm 1 whenever
\* initialState is not the zero vector and no step gave a vector of norm
\* 0, for every timeSteps >= 0.
C18_NormalizedAndDefined ==
  itePc = "done" =>
    /\ \A i \in 1 .. Len(iteState) :
         Finite(Num(iteState[i].real)) /\ Finite(Num(iteState[i].imag))
    /\ (~iteDegenerate
          /\ NormSquared(iteInitialState, Len(iteInitialState)) # 0)
         => Close(NormSquared(iteState, Len(iteState)), SCALE)

ZeroLike(x) == Less(x, SCALE \div 2)
OneLike(x) == Less(SCALE \div 2, x)

\* C19 as stated: in every reachable state the X gate takes a 0-like
\* target scalar (below 0.5, the near-zero value an earlier X left
\* included) to a 1-like one (above 0.5), and a 1-like scalar to a 0-like
\* one; so three X gates in a row leave a fresh qubit 1-like.  (Stated
\* for the states whose coherence is within [0, 1], so that the scalars X
\* writes are themselves within [0, 1].)
C19_XFlipsZeroLikeAndOneLike ==
  [][\A t \in 0 .. Length(qubits) - 1 :
       (/\ InUnit(coherence)
        /\ ApplyGate([type |-> "X", target |-> t, control |-> Undefined])) =>
         /\ ZeroLike(qubits[t]) => OneLike(qubits'[t])
         /\ OneLike(qubits[t]) => ZeroLike(qubits'[t])]_vars

\* a target or a control that is no index of the register 0 .. N-1
OutsideRegister(gate) ==
  \/ gate.target < 0
  \/ gate.target >= Length(qubits)
  \/ /\ gate.control # Undefined
     /\ (gate.control < 0 \/ gate.control >= Length(qubits))

\* C20 as stated: applyGate throws for every gate whose target or control
\* is outside 0 .. N-1, negative indices included, and then leaves the
\* state as it was; and the qubit scalars stay N in number whatever calls
\* are made.
C20_RejectsEveryIndexOutsideRegister ==
  /\ [][\A gate \in Gates(Length(qubits)) :
          (OutsideRegister(gate) /\ ApplyGate(gate)) =>
            (lastCall' = "threw" /\ UNCHANGED stateVars)]_vars
  /\ [][DOMAIN qubits' = DOMAIN qubits]_vars

\* ------------------------------------------------------------------------
\* C21: after any dispatched gate, CNOT included, the entanglement scalar is
\* min(1, mean over the unordered pairs i < j of
\* |qi*qj - sqrt((1 - qi^2)(1 - qj^2))|) of the qubit scalars after the gate:
\* the per-pair increment of CNOT is overwritten and the value before the
\* gate has no part in it.
\* ------------------------------------------------------------------------
PairDistance(qi, qj) ==
  MathAbs(Minus(Times(qi, qj),
                MathSqrt(Times(Minus(SCALE, MathPow2(qi)),
                               Minus(SCALE, MathPow2(qj))))))

UnorderedPairs(n) == {pr \in (0 .. n - 1) \X (0 .. n - 1) : pr[1] < pr[2]}

RECURSIVE SumOfDistances(_, _)
SumOfDistances(q, prs) ==
  IF prs = {} THEN 0
  ELSE LET pr == CHOOSE x \in prs : TRUE
       IN Plus(PairDistance(q[pr[1]], q[pr[2]]),
               SumOfDistances(q, prs \ {pr}))

MeanPairEntanglement(q) ==
  LET prs == UnorderedPairs(Length(q))
  IN MathMin(SCALE, DivideByCount(SumOfDistances(q, prs), Cardinality(prs)))

C21_EntanglementIsRecomputed ==
  lastCall = "applied" => entanglement = MeanPairEntanglement(qubits)

\* a CNOT with both indices in the register dispatched on a processor whose
\* entanglement was already positive, leaving a positive number
C21_Witness ==
  /\ lastCall = "applied"
  /\ ops = 2
  /\ Len(gateLog) = 2
  /\ gateLog[2].type = "CNOT"
  /\ gateLog[2].control \in 0 .. Length(qubits) - 1
  /\ gateLog[2].target \in 0 .. Length(qubits) - 1
  /\ gateLog[2].control # gateLog[2].target
  /\ entanglement > 0 /\ entanglement < SCALE
  /\ entanglement = MeanPairEntanglement(qubits)

\* ------------------------------------------------------------------------
\* C22: applyGate with a gate of a kind without a dispatch entry (Y, Z, RX,
\* RY, RZ, T, S) and indices within the register raises no error and leaves
\* the whole state as it was, coherence and entanglement included; a CNOT
\* without a control index leaves every qubit scalar as it was and still
\* applies the decoherence step and the entanglement recompute.
\* ------------------------------------------------------------------------
WithinRegister(gate) ==
  /\ gate.target \in 0 .. Length(qubits) - 1
  /\ gate.control = Undefined \/ gate.control \in 0 .. Length(qubits) - 1

UndispatchedKinds == {"Y", "Z", "RX", "RY", "RZ", "T", "S"}

Decohered(c) == Times(Times(c, DephasingFactor), Minus(SCALE, ThermalNoise))

C22_UndispatchedKindsAndBareCnot ==
  [][\A gate \in Gates(Length(qubits)) :
       (WithinRegister(gate) /\ gateLog' = Append(gateLog, gate)) =>
         /\ gate.type \in UndispatchedKinds =>
              (lastCall' = "ignored" /\ UNCHANGED stateVars)
         /\ (gate.type = "CNOT" /\ gate.control = Undefined) =>
              /\ lastCall' = "applied"
              /\ qubits' = qubits
              /\ coherence' = Decohered(coherence)
              /\ entanglement' = MeanPairEntanglement(qubits)]_vars

\* a gate of an undispatched kind was ignored, then a CNOT without control
\* was applied to a processor holding a coherence below 1: the coherence
\* fell and the entanglement of the two zero scalars was recomputed to 1
C22_Witness ==
  /\ Len(gateLog) = 2
  /\ gateLog[1].type \in UndispatchedKinds
  /\ gateLog[1].target \in 0 .. Length(qubits) - 1
  /\ gateLog[2] = [type |-> "CNOT", target |-> 0, control |-> Undefined]
  /\ lastCall = "applied"
  /\ Length(qubits) = 2
  /\ coherence = Decohered(Decohered(SCALE))
  /\ entanglement = SCALE

\* ------------------------------------------------------------------------
\* C24 as stated: X on qubit c of a processor whose coherence is strictly
\* between 0 and 1, then CNOT(control c, target t), leaves the scalar of
\* qubit t as it was (X never writes exactly 1).  The coherence X met is
\* strictly between 0 and 1 exactly when the coherence after the X call,
\* decohered once more, is strictly between 0 and the decohered 1.
\* ------------------------------------------------------------------------
AfterXOn(c) == LastKind = "X" /\ LastTarget = c

RoundingWindow == SCALE \div EnvironmentalNoise

C25_ReturnedEnergyIsObjectiveAtReturned ==
  optPc = "done" =>
    ReturnedEnergy = EvaluateObjective(optKind, optResult.parameters).energy

\* ------------------------------------------------------------------------
\* C23: quantumPhaseEstimation with precision p iterates k = 0 .. n - 1 for
\* n = ceil(log2(1 / p)); in iteration k it applies the unitary exactly 2^k
\* times starting again from the original eigenstate (2^n - 1 applications
\* in all), adds measurement * 2^-(k+1) to the phase, never modifies the
\* caller's eigenstate, and returns 0 with no unitary application when
\* p >= 1.
\* ------------------------------------------------------------------------
\* the least n >= 0 with p * 2^n >= 1, 0 when there is none to run
RECURSIVE LeastBits(_, _)
LeastBits(pr, n) == IF pr * 2^n >= SCALE THEN n ELSE LeastBits(pr, n + 1)
ExpectedIterations == IF qpePrecision <= 0 THEN 0 ELSE LeastBits(qpePrecision, 0)

\* the unitary applied count times to the state
RECURSIVE Iterated(_, _, _)
Iterated(u, state, count) ==
  IF count = 0 THEN state ELSE ApplyUnitary(u, Iterated(u, state, count - 1))

\* the sum of the first k terms measurement * 2^-(j+1), j = 0 .. k - 1
RECURSIVE ExpectedPhase(_)
ExpectedPhase(k) ==
  IF k = 0 THEN 0
  ELSE Plus(ExpectedPhase(k - 1),
            Times(MeasurePhase(Iterated(qpeUnitary, qpeEigenstate, 2^(k - 1))),
                  SCALE \div 2^k))

C23_PhaseEstimationSchedule ==
  /\ [](qpePc # "idle" =>
         /\ qpeK \in 0 .. ExpectedIterations
         /\ qpePhase = ExpectedPhase(qpeK)
         /\ qpePc = "inner" =>
              /\ qpeK < ExpectedIterations
              /\ qpePower = 2^qpeK
              /\ qpeI \in 0 .. qpePower
              /\ qpeCurrentState = Iterated(qpeUnitary, qpeEigenstate, qpeI)
              /\ qpeApplied = 2^qpeK - 1 + qpeI
         /\ qpePc # "inner" => qpeApplied = 2^qpeK - 1
         /\ qpePc = "done" =>
              /\ qpeK = ExpectedIterations
              /\ qpeApplied = 2^ExpectedIterations - 1
              /\ qpePrecision >= SCALE => (qpePhase = 0 /\ qpeApplied = 0))
  /\ [][qpeEigenstate' = qpeEigenstate]_vars

\* a returned estimate for precision 1/8 and the eighth turn: three
\* iterations, seven applications, phase 1/8 * 1/2 + 1/4 * 1/4 + 1/2 * 1/8
C23_Witness ==
  /\ qpePc = "done"
  /\ qpeUnitary = "eighth"
  /\ qpePrecision = SCALE \div 8
  /\ qpeEigenstate[1] = [real |-> SCALE, imag |-> 0]
  /\ qpeK = 3
  /\ qpeApplied = 7
  /\ Close(qpePhase, (3 * SCALE) \div 16)

====
